---------------------------- MODULE Spec2Model ----------------------------
(***************************************************************************)
(* TypeScriptParser (src/src/TypeScriptParser.ts): the lowering of a       *)
(* resolved TypeScript syntax tree to the KSLang schema.                   *)
(*                                                                         *)
(* Every lowering function is modelled as an operator that returns an      *)
(* outcome record                                                          *)
(*     [threw |-> BOOLEAN, val |-> value, log |-> sequence of diagnostics] *)
(* threw: a TypeError left the function (property read on undefined);      *)
(* log:   the logNodeError calls made, in order, up to the return/throw.   *)
(*                                                                         *)
(* Text that the code inspects character by character (names given to      *)
(* nameToKS, type names) is a sequence of one-character strings; text the  *)
(* code only copies (identifier text, literal text, operators) is a string.*)
(***************************************************************************)
EXTENDS Integers, Sequences, FiniteSets, TLC

VARIABLES op, arg, ret

vars == <<op, arg, ret>>

-----------------------------------------------------------------------------
(* JavaScript values *)

Undefined == [js |-> "undefined"]

Null == [js |-> "null"]

\* ret before the call has been made
Pending == [js |-> "pending"]

Ok(v) == [threw |-> FALSE, val |-> v, log |-> <<>>]

Logged(v, log) == [threw |-> FALSE, val |-> v, log |-> log]

\* a TypeError propagating out, after the diagnostics in log were written
Throw(log) == [threw |-> TRUE, val |-> Undefined, log |-> log]

HasField(r, f) == f \in DOMAIN r

\* Array.prototype.map with a callback that may log or throw: outs[i] is the
\* outcome of the callback on item i; the items after the first throw are
\* never visited.
RECURSIVE MapFrom(_, _, _, _)
MapFrom(outs, i, vals, log) ==
    IF i > Len(outs) THEN Logged(vals, log)
    ELSE IF outs[i].threw THEN Throw(log \o outs[i].log)
    ELSE MapFrom(outs, i + 1, Append(vals, outs[i].val), log \o outs[i].log)

Map(outs) == MapFrom(outs, 1, <<>>, <<>>)

\* the concatenation of a sequence of sequences
RECURSIVE Flatten(_)
Flatten(seqs) ==
    IF seqs = <<>> THEN <<>> ELSE Head(seqs) \o Flatten(Tail(seqs))

-----------------------------------------------------------------------------
(* Characters: the printable ASCII range, in code order (code 32 first).    *)
(* The double quote (34), the backslash (92) and the backquote (96) keep    *)
(* their places under the names QUOTE, BACKSLASH and BACKQUOTE.             *)

Printable ==
    << " ", "!", "QUOTE", "#", "$", "%", "&", "'", "(", ")", "*", "+", ",", "-",
       ".", "/", "0", "1", "2", "3", "4", "5", "6", "7", "8", "9", ":", ";",
       "<", "=", ">", "?", "@", "A", "B", "C", "D", "E", "F", "G", "H", "I",
       "J", "K", "L", "M", "N", "O", "P", "Q", "R", "S", "T", "U", "V", "W",
       "X", "Y", "Z", "[", "BACKSLASH", "]", "^", "_", "BACKQUOTE", "a", "b", "c", "d", "e",
       "f", "g", "h", "i", "j", "k", "l", "m", "n", "o", "p", "q", "r", "s",
       "t", "u", "v", "w", "x", "y", "z", "{", "|", "}", "~" >>

FirstPrintableCode == 32

CaseOffset == 32

CharCode(c) ==
    FirstPrintableCode - 1 + (CHOOSE i \in 1..Len(Printable) : Printable[i] = c)

FromCharCode(n) == Printable[n - FirstPrintableCode + 1]

\* the <= of JavaScript on two one-character strings
CharLeq(c, d) == CharCode(c) <= CharCode(d)

toLowerCase(c) ==
    IF CharLeq("A", c) /\ CharLeq(c, "Z")
    THEN FromCharCode(CharCode(c) + CaseOffset)
    ELSE c

-----------------------------------------------------------------------------
(* nameToKS *)

InvalidCharacter(c, name) == [msg |-> "Invalid character in name", c |-> c, name |-> name]

\* mutant: the separator is written before every uppercase letter
AppendUpper_Always(result, c) == result \o <<"_">> \o <<toLowerCase(c)>>

\* mutant: the uppercase letter is kept as it is
AppendUpper_Keep(result, c) ==
    result \o (IF result = <<>> THEN <<>> ELSE <<"_">>) \o <<c>>

\* result += (result === "" ? "" : "_") + c.toLowerCase()
AppendUpper(result, c) ==
    result \o (IF result = <<>> THEN <<>> ELSE <<"_">>) \o <<toLowerCase(c)>>

IsUpperChar(c) == CharLeq("A", c) /\ CharLeq(c, "Z")

IsPlainChar(c) ==
    \/ CharLeq("a", c) /\ CharLeq(c, "z")
    \/ c = "_"
    \/ CharLeq("0", c) /\ CharLeq(c, "9")

RECURSIVE nameToKSLoop(_, _, _, _)
nameToKSLoop(name, i, result, log) ==
    IF i > Len(name) THEN Logged(result, log)
    ELSE LET c == name[i] IN
         IF IsUpperChar(c)
         THEN nameToKSLoop(name, i + 1, AppendUpper(result, c), log)
         ELSE IF IsPlainChar(c)
         THEN nameToKSLoop(name, i + 1, Append(result, c), log)
         ELSE nameToKSLoop(name, i + 1, result, Append(log, InvalidCharacter(c, name)))

nameToKS(name) == nameToKSLoop(name, 1, <<>>, <<>>)

-----------------------------------------------------------------------------
(* Object literals and arrays whose parts may log or throw *)

Index(fields, f) == CHOOSE i \in 1..Len(fields) : fields[i] = f

\* { f1: e1, f2: e2, ... }: parts holds the outcomes of e1, e2, ... joined by
\* Map, so the parts are evaluated in the order written
Object(fields, parts) ==
    IF parts.threw THEN Throw(parts.log)
    ELSE Logged([f \in {fields[i] : i \in 1..Len(fields)} |->
                    parts.val[Index(fields, f)]], parts.log)

\* [item]
ArrayOf(item) == IF item.threw THEN Throw(item.log) ELSE Logged(<<item.val>>, item.log)

\* the diagnostics of log, then the evaluation that gave outcome
After(log, outcome) ==
    [threw |-> outcome.threw, val |-> outcome.val, log |-> log \o outcome.log]

-----------------------------------------------------------------------------
(* convertTsType *)

Number == <<"n", "u", "m", "b", "e", "r">>

String == <<"s", "t", "r", "i", "n", "g">>

Boolean == <<"b", "o", "o", "l", "e", "a", "n">>

Void == <<"v", "o", "i", "d">>

Array == <<"A", "r", "r", "a", "y">>

\* (<any>tsType).intrinsicName || tsType.symbol.name
\* a type with neither (a union, an anonymous type) has no symbol to read
HasTypeText(tsType) ==
    \/ HasField(tsType, "intrinsicName") /\ tsType.intrinsicName # <<>>
    \/ HasField(tsType, "symbol")

TypeText(tsType) ==
    IF HasField(tsType, "intrinsicName") /\ tsType.intrinsicName # <<>>
    THEN tsType.intrinsicName
    ELSE tsType.symbol.name

RECURSIVE convertTsType(_)
\* mutant: the type arguments are lowered last one first
convertTypeArguments_Reversed(typeArgs) ==
    Map([i \in 1..Len(typeArgs) |-> convertTsType(typeArgs[Len(typeArgs) + 1 - i])])

\* typeArgs.map(x => this.convertTsType(x))
convertTypeArguments(typeArgs) ==
    Map([i \in 1..Len(typeArgs) |-> convertTsType(typeArgs[i])])

convertTsType(tsType) ==
    IF ~HasTypeText(tsType) THEN Throw(<<>>)
    ELSE IF TypeText(tsType) = Number THEN Ok([type |-> "Int32"])
    ELSE IF TypeText(tsType) = String THEN Ok([type |-> "String"])
    ELSE IF TypeText(tsType) = Boolean THEN Ok([type |-> "Boolean"])
    ELSE IF TypeText(tsType) = Void THEN Ok([type |-> "Void"])
    ELSE IF TypeText(tsType) = Array THEN
        IF HasField(tsType, "typeArguments")
        THEN Object(<<"type", "typeArguments">>,
                    Map(<<Ok("Array"), convertTypeArguments(tsType.typeArguments)>>))
        ELSE Ok([type |-> "Array"])
    ELSE
        IF HasField(tsType, "typeArguments")
        THEN Object(<<"type", "className", "typeArguments">>,
                    Map(<<Ok("Class"), nameToKS(TypeText(tsType)),
                          convertTypeArguments(tsType.typeArguments)>>))
        ELSE Object(<<"type", "className">>,
                    Map(<<Ok("Class"), nameToKS(TypeText(tsType))>>))

-----------------------------------------------------------------------------
(* convertExpression *)
(* A syntax node is a record with a kind; an optional child that the source  *)
(* file leaves out is Undefined; a node array that the parser leaves out     *)
(* (the arguments of `new Foo`) is a field the record does not have.         *)

UnexpectedExpressionKind(kind) == [msg |-> "Unexpected expression kind", kind |-> kind]

\* unaryExpr.operator of a postfix expression, as text
PostfixOperator(operator) ==
    IF operator = "PlusPlusToken" THEN [text |-> "++"]
    ELSE IF operator = "MinusMinusToken" THEN [text |-> "--"]
    ELSE Null

\* unaryExpr.operator of a prefix expression, as text
PrefixOperator(operator) ==
    IF operator = "PlusPlusToken" THEN [text |-> "++"]
    ELSE IF operator = "MinusMinusToken" THEN [text |-> "--"]
    ELSE IF operator = "PlusToken" THEN [text |-> "+"]
    ELSE IF operator = "MinusToken" THEN [text |-> "-"]
    ELSE IF operator = "TildeToken" THEN [text |-> "~"]
    ELSE IF operator = "ExclamationToken" THEN [text |-> "!"]
    ELSE Null

knownKeywords == <<"this", "super">>

\* kindName.toLowerCase() === `${x}keyword`, on the kind names of the model
KeywordKindName(x) ==
    IF x = "this" THEN "ThisKeyword" ELSE IF x = "super" THEN "SuperKeyword" ELSE "None"

\* knownKeywords.find(...): the positions of knownKeywords that match
KeywordMatches(kind) ==
    {i \in 1..Len(knownKeywords) : KeywordKindName(knownKeywords[i]) = kind}

\* the first match
Keyword(kind) ==
    knownKeywords[CHOOSE i \in KeywordMatches(kind) :
                     \A j \in KeywordMatches(kind) : i <= j]

\* mutant: an unsupported node makes the lowering give up
UnexpectedExpression_Throws(kind) == Throw(<<UnexpectedExpressionKind(kind)>>)

\* mutant: an unsupported node is dropped without a diagnostic
UnexpectedExpression_Silent(kind) == Ok(Null)

\* this.logNodeError(`Unexpected expression kind ...`); return null;
UnexpectedExpression(kind) == Logged(Null, <<UnexpectedExpressionKind(kind)>>)

\* mutant: the bracket form keeps a tag of its own
ElementAccessType_Tagged == "ElementAccess"

\* type: ks.ExpressionType.PropertyAccess, in the ElementAccessExpression branch
ElementAccessType == "PropertyAccess"

RECURSIVE convertExpression(_)
\* nodes.map(x => this.convertExpression(x))
convertExpressions(nodes) ==
    Map([i \in 1..Len(nodes) |-> convertExpression(nodes[i])])

\* newExpr.arguments.map(...): `new Foo` has no arguments array to map
convertNewArguments(newExpr) ==
    IF HasField(newExpr, "arguments") THEN convertExpressions(newExpr.arguments)
    ELSE Throw(<<>>)

convertExpression(tsExpr) ==
    IF tsExpr = Undefined THEN Ok(Undefined)
    ELSE IF tsExpr.kind = "CallExpression" THEN
        Object(<<"type", "method", "arguments">>,
               Map(<<Ok("Call"), convertExpression(tsExpr.expression),
                     convertExpressions(tsExpr.arguments)>>))
    ELSE IF tsExpr.kind = "BinaryExpression" THEN
        Object(<<"type", "left", "right", "operator">>,
               Map(<<Ok("Binary"), convertExpression(tsExpr.left),
                     convertExpression(tsExpr.right), Ok(tsExpr.operatorToken)>>))
    ELSE IF tsExpr.kind = "PropertyAccessExpression" THEN
        Object(<<"type", "object", "propertyName">>,
               Map(<<Ok("PropertyAccess"), convertExpression(tsExpr.expression),
                     convertExpression(tsExpr.name)>>))
    ELSE IF tsExpr.kind = "ElementAccessExpression" THEN
        Object(<<"type", "object", "propertyName">>,
               Map(<<Ok(ElementAccessType), convertExpression(tsExpr.expression),
                     convertExpression(tsExpr.argumentExpression)>>))
    ELSE IF tsExpr.kind = "Identifier" THEN
        Ok([type |-> "Identifier", text |-> tsExpr.text])
    ELSE IF tsExpr.kind = "NewExpression" THEN
        Object(<<"type", "class", "arguments">>,
               Map(<<Ok("New"), convertExpression(tsExpr.expression),
                     convertNewArguments(tsExpr)>>))
    ELSE IF tsExpr.kind = "ConditionalExpression" THEN
        Object(<<"type", "condition", "whenTrue", "whenFalse">>,
               Map(<<Ok("Conditional"), convertExpression(tsExpr.condition),
                     convertExpression(tsExpr.whenTrue),
                     convertExpression(tsExpr.whenFalse)>>))
    ELSE IF tsExpr.kind = "StringLiteral" THEN
        Ok([type |-> "Literal", literalType |-> "string", value |-> tsExpr.text])
    ELSE IF tsExpr.kind = "NumericLiteral" THEN
        Ok([type |-> "Literal", literalType |-> "numeric", value |-> tsExpr.text])
    ELSE IF tsExpr.kind = "FalseKeyword" \/ tsExpr.kind = "TrueKeyword" THEN
        Ok([type |-> "Literal", literalType |-> "boolean", value |-> tsExpr.text])
    ELSE IF tsExpr.kind = "NullKeyword" THEN
        Ok([type |-> "Literal", literalType |-> "null", value |-> "null"])
    ELSE IF tsExpr.kind = "ParenthesizedExpression" THEN
        Object(<<"type", "expression">>,
               Map(<<Ok("Parenthesized"), convertExpression(tsExpr.expression)>>))
    ELSE IF tsExpr.kind = "PostfixUnaryExpression" THEN
        Object(<<"type", "unaryType", "operator", "operand">>,
               Map(<<Ok("Unary"), Ok("postfix"), Ok(PostfixOperator(tsExpr.operator)),
                     convertExpression(tsExpr.operand)>>))
    ELSE IF tsExpr.kind = "PrefixUnaryExpression" THEN
        Object(<<"type", "unaryType", "operator", "operand">>,
               Map(<<Ok("Unary"), Ok("prefix"), Ok(PrefixOperator(tsExpr.operator)),
                     convertExpression(tsExpr.operand)>>))
    ELSE IF tsExpr.kind = "ArrayLiteralExpression" THEN
        Object(<<"type", "items">>,
               Map(<<Ok("ArrayLiteral"), convertExpressions(tsExpr.elements)>>))
    ELSE IF KeywordMatches(tsExpr.kind) # {} THEN
        Ok([type |-> "Identifier", text |-> Keyword(tsExpr.kind)])
    ELSE UnexpectedExpression(tsExpr.kind)

-----------------------------------------------------------------------------
(* convertVariableDeclaration, convertInitializer *)

MultipleDeclarations ==
    [msg |-> "Multiple declarations are not supported as for of initializers"]

InitializerNotSupported(kind) ==
    [msg |-> "is not supported yet as for of initializer", kind |-> kind]

UnexpectedStatementKind(kind) == [msg |-> "Unexpected statement kind", kind |-> kind]

\* varDecl.name of an absent declaration is a read on undefined
convertVariableDeclaration(varDecl) ==
    IF varDecl = Undefined THEN Throw(<<>>)
    ELSE Object(<<"type", "variableName", "initializer">>,
                Map(<<Ok("Variable"), Ok(varDecl.name),
                      convertExpression(varDecl.initializer)>>))

\* array[i] of JavaScript, i counted from 0: undefined past the end
At(array, i) == IF i + 1 \in 1..Len(array) THEN array[i + 1] ELSE Undefined

\* mutant: the last declarator of the list is the one lowered
UsedDeclaration_Last(declarations) == At(declarations, Len(declarations) - 1)

\* varDeclList.declarations[0]
UsedDeclaration(declarations) == At(declarations, 0)

\* mutant: a list of several declarators is not reported
LengthDiagnostic_None(declarations) == <<>>

\* if (varDeclList.declarations.length !== 1) this.logNodeError(...)
LengthDiagnostic(declarations) ==
    IF Len(declarations) # 1 THEN <<MultipleDeclarations>> ELSE <<>>

\* initializer.kind of an omitted initializer is a read on undefined
convertInitializer(initializer) ==
    IF initializer = Undefined THEN Throw(<<>>)
    ELSE IF initializer.kind = "VariableDeclarationList" THEN
        After(LengthDiagnostic(initializer.declarations),
              convertVariableDeclaration(UsedDeclaration(initializer.declarations)))
    ELSE Logged(Undefined, <<InitializerNotSupported(initializer.kind)>>)

-----------------------------------------------------------------------------
(* convertStatement, convertBlock *)

\* mutant: the per-statement arrays are joined last statement first
flattenArray_Reversed(arrays) ==
    Flatten([i \in 1..Len(arrays) |-> arrays[Len(arrays) + 1 - i]])

\* mutant: only the first entry of each per-statement array is kept
flattenArray_FirstOnly(arrays) ==
    Flatten([i \in 1..Len(arrays) |->
                IF arrays[i] = <<>> THEN <<>> ELSE <<arrays[i][1]>>])

\* [].concat.apply([], arrays), every element of arrays being an array
flattenArray(arrays) == Flatten(arrays)

\* flattenArray(statements.map(x => this.convertStatement(x)))
flattenArrayOf(each) ==
    IF each.threw THEN Throw(each.log) ELSE Logged(flattenArray(each.val), each.log)

\* mutant: the array of a bare statement is wrapped once more
BareBlock_Nested(one) == Object(<<"statements">>, Map(<<ArrayOf(one)>>))

\* { statements: this.convertStatement(tsBlock) }
BareBlock(one) == Object(<<"statements">>, Map(<<one>>))

\* ksStmts || [ksStmt] with ksStmts and ksStmt both still null
UnexpectedStatement(kind) == Logged(<<Null>>, <<UnexpectedStatementKind(kind)>>)

\* convertStatement and convertBlock call each other: they are written as one
\* recursive definition, lower(fn, node), fn naming the function that runs.
RECURSIVE lower(_, _)
convertStatementBody(tsStatement) ==
    IF tsStatement = Undefined THEN Ok(Undefined)
    ELSE IF tsStatement.kind = "IfStatement" THEN
        ArrayOf(Object(<<"type", "condition", "then", "else">>,
                       Map(<<Ok("If"), convertExpression(tsStatement.expression),
                             lower("convertBlock", tsStatement.thenStatement),
                             lower("convertBlock", tsStatement.elseStatement)>>)))
    ELSE IF tsStatement.kind = "ReturnStatement" THEN
        ArrayOf(Object(<<"type", "expression">>,
                       Map(<<Ok("Return"), convertExpression(tsStatement.expression)>>)))
    ELSE IF tsStatement.kind = "ThrowStatement" THEN
        ArrayOf(Object(<<"type", "expression">>,
                       Map(<<Ok("Throw"), convertExpression(tsStatement.expression)>>)))
    ELSE IF tsStatement.kind = "ExpressionStatement" THEN
        ArrayOf(Object(<<"type", "expression">>,
                       Map(<<Ok("Expression"),
                             convertExpression(tsStatement.expression)>>)))
    ELSE IF tsStatement.kind = "VariableStatement" THEN
        Map([i \in 1..Len(tsStatement.declarationList.declarations) |->
                convertVariableDeclaration(tsStatement.declarationList.declarations[i])])
    ELSE IF tsStatement.kind = "WhileStatement" THEN
        ArrayOf(Object(<<"type", "condition", "body">>,
                       Map(<<Ok("While"), convertExpression(tsStatement.expression),
                             lower("convertBlock", tsStatement.statement)>>)))
    ELSE IF tsStatement.kind = "ForOfStatement" THEN
        ArrayOf(Object(<<"type", "itemVariable", "items", "body">>,
                       Map(<<Ok("Foreach"), convertInitializer(tsStatement.initializer),
                             convertExpression(tsStatement.expression),
                             lower("convertBlock", tsStatement.statement)>>)))
    ELSE IF tsStatement.kind = "ForStatement" THEN
        ArrayOf(Object(<<"type", "itemVariable", "condition", "incrementor", "body">>,
                       Map(<<Ok("For"), convertInitializer(tsStatement.initializer),
                             convertExpression(tsStatement.condition),
                             convertExpression(tsStatement.incrementor),
                             lower("convertBlock", tsStatement.statement)>>)))
    ELSE UnexpectedStatement(tsStatement.kind)

convertBlockBody(tsBlock) ==
    IF tsBlock = Undefined THEN Ok(Undefined)
    ELSE IF HasField(tsBlock, "statements") THEN
        Object(<<"statements">>,
               Map(<<flattenArrayOf(Map([i \in 1..Len(tsBlock.statements) |->
                                            lower("convertStatement",
                                                  tsBlock.statements[i])]))>>))
    ELSE BareBlock(lower("convertStatement", tsBlock))

lower(fn, node) ==
    IF fn = "convertBlock" THEN convertBlockBody(node) ELSE convertStatementBody(node)

convertStatement(tsStatement) == lower("convertStatement", tsStatement)

convertBlock(tsBlock) == lower("convertBlock", tsBlock)

-----------------------------------------------------------------------------
(* convertParameter, createSchemaFromSourceFile *)
(* A map of the schema (enums, classes, fields, methods) is a function from  *)
(* its keys; map[key] = value replaces what the key held.  A loop that fills *)
(* a map is the sequence of its [key, value] entries, in loop order, put     *)
(* into the map one after the other.                                         *)

EmptyMap == [key \in {} |-> Undefined]

\* mutant: a key that is already there keeps its entry
Put_KeepFirst(map, key, value) ==
    [k \in DOMAIN map \cup {key} |-> IF k \in DOMAIN map THEN map[k] ELSE value]

\* mutant: an entry written over an earlier one keeps the parts it lacks
Put_Merge(map, key, value) ==
    [k \in DOMAIN map \cup {key} |->
        IF k # key THEN map[k]
        ELSE IF key \in DOMAIN map /\ DOMAIN value \subseteq DOMAIN map[key]
             THEN [f \in DOMAIN map[key] |->
                      IF f \in DOMAIN value THEN value[f] ELSE map[key][f]]
             ELSE value]

Put(map, key, value) ==
    [k \in DOMAIN map \cup {key} |-> IF k = key THEN value ELSE map[k]]

RECURSIVE PutAll(_, _, _)
PutAll(map, entries, i) ==
    IF i > Len(entries) THEN map
    ELSE PutAll(Put(map, entries[i].key, entries[i].value), entries, i + 1)

\* the map that the entries leave, the first entry put first
MapOf(entries) ==
    IF entries.threw THEN Throw(entries.log)
    ELSE Logged(PutAll(EmptyMap, entries.val, 1), entries.log)

\* map[key] = value, the key evaluated before the value
Entry(key, value) == Object(<<"key", "value">>, Map(<<key, value>>))

convertParameter(tsParam) ==
    Object(<<"name", "type">>,
           Map(<<nameToKS(tsParam.name), convertTsType(tsParam.type)>>))

convertParameters(tsParams) ==
    Map([i \in 1..Len(tsParams) |-> convertParameter(tsParams[i])])

\* getBody().compilerNode, then convertBlock: a declaration without a body
\* has no compilerNode to read
convertBody(body) == IF body = Undefined THEN Throw(<<>>) ELSE convertBlock(body)

\* tsEnum.getMembers().map(tsEnumMember => ({ name: this.nameToKS(...) }))
enumValues(members) ==
    Map([i \in 1..Len(members) |-> Object(<<"name">>, Map(<<nameToKS(members[i])>>))])

enumsOf(tsEnums) ==
    MapOf(Map([i \in 1..Len(tsEnums) |->
                  Entry(nameToKS(tsEnums[i].name),
                        Object(<<"values">>, Map(<<enumValues(tsEnums[i].members)>>)))]))

Visibility(scope) ==
    IF scope = "public" THEN "Public"
    ELSE IF scope = "protected" THEN "Protected"
    ELSE "Private"

\* the properties the loop does not skip
IsField(tsProp) ==
    tsProp.declaration \in {"PropertyDeclaration", "ParameterDeclaration"}

fieldSchema(tsProp) ==
    IF tsProp.initializer # Undefined
    THEN Object(<<"type", "visibility", "defaultValue">>,
                Map(<<convertTsType(tsProp.type), Ok(Visibility(tsProp.scope)),
                      Ok(tsProp.initializer.text)>>))
    ELSE Object(<<"type", "visibility">>,
                Map(<<convertTsType(tsProp.type), Ok(Visibility(tsProp.scope))>>))

fieldsOf(tsProps) ==
    MapOf(Map([i \in 1..Len(SelectSeq(tsProps, IsField)) |->
                  Entry(nameToKS(SelectSeq(tsProps, IsField)[i].name),
                        fieldSchema(SelectSeq(tsProps, IsField)[i]))]))

methodSchema(tsMethod) ==
    Object(<<"returns", "parameters", "body">>,
           Map(<<convertTsType(tsMethod.returnType),
                 convertParameters(tsMethod.parameters),
                 convertBody(tsMethod.body)>>))

methodsOf(tsMethods) ==
    MapOf(Map([i \in 1..Len(tsMethods) |->
                  Entry(nameToKS(tsMethods[i].name), methodSchema(tsMethods[i]))]))

\* mutant: the constructor declared last is the one lowered
UsedConstructor_Last(constructors) == constructors[Len(constructors)]

\* constructors[0]
UsedConstructor(constructors) == constructors[1]

\* mutant: a class with several constructors is given none
HasConstructor_OnlyOne(constructors) == Len(constructors) = 1

\* if (constructors.length > 0)
HasConstructor(constructors) == Len(constructors) > 0

convertConstructor(tsConstructor) ==
    Object(<<"parameters", "body">>,
           Map(<<convertParameters(tsConstructor.parameters),
                 convertBody(tsConstructor.body)>>))

\* the body of the loop over the classes, for one class
classSchema(tsClass) ==
    IF HasConstructor(tsClass.constructors)
    THEN Object(<<"fields", "methods", "constructor">>,
                Map(<<fieldsOf(tsClass.properties), methodsOf(tsClass.methods),
                      convertConstructor(UsedConstructor(tsClass.constructors))>>))
    ELSE Object(<<"fields", "methods">>,
                Map(<<fieldsOf(tsClass.properties), methodsOf(tsClass.methods)>>))

classesOf(tsClasses) ==
    MapOf(Map([i \in 1..Len(tsClasses) |->
                  Entry(nameToKS(tsClasses[i].name), classSchema(tsClasses[i]))]))

createSchemaFromSourceFile(typeInfo) ==
    Object(<<"enums", "classes">>,
           Map(<<enumsOf(typeInfo.enums), classesOf(typeInfo.classes)>>))

-----------------------------------------------------------------------------
(* Inputs: names *)

MaxLen == 4

NameChars == {"A", "z", "_", "2", "$"}

RECURSIVE SeqsUpTo(_, _)
SeqsUpTo(S, n) ==
    IF n = 0 THEN {<<>>}
    ELSE LET shorter == SeqsUpTo(S, n - 1)
         IN shorter \cup {Append(s, x) : s \in {t \in shorter : Len(t) = n - 1}, x \in S}

MyClass == <<"M", "y", "C", "l", "a", "s", "s">>

fieldName == <<"f", "i", "e", "l", "d", "N", "a", "m", "e">>

thing2 == <<"t", "h", "i", "n", "g", "2">>

Names == SeqsUpTo(NameChars, MaxLen) \cup {MyClass, fieldName, thing2}

-----------------------------------------------------------------------------
(* Inputs: resolved types *)

MaxTypeArgs == 2

Foo == <<"F", "o", "o">>

Bar == <<"B", "a", "r">>

Intrinsic(n) == [intrinsicName |-> n]

Named(n) == [symbol |-> [name |-> n]]

Generic(n, args) == [symbol |-> [name |-> n], typeArguments |-> args]

SymbolNames == {Array, Foo, Bar, <<"T", "$">>}

\* {} stands for a type that has neither an intrinsic name nor a symbol
Types0 ==
    {Intrinsic(n) : n \in {Number, String, Boolean, Void}}
        \cup {Named(n) : n \in SymbolNames}
        \cup {[flags |-> "Union"]}

Types1 == {Generic(n, args) : n \in SymbolNames, args \in SeqsUpTo(Types0, MaxTypeArgs)}

Types2 == {Generic(n, <<t>>) : n \in {Array, Foo}, t \in Types1}

Types == Types0 \cup Types1 \cup Types2

-----------------------------------------------------------------------------
(* Inputs: expression nodes *)

MaxArgs == 2

Id(text) == [kind |-> "Identifier", text |-> text]

Num(text) == [kind |-> "NumericLiteral", text |-> text]

Str(text) == [kind |-> "StringLiteral", text |-> text]

TrueKw == [kind |-> "TrueKeyword", text |-> "true"]

FalseKw == [kind |-> "FalseKeyword", text |-> "false"]

NullKw == [kind |-> "NullKeyword"]

ThisKw == [kind |-> "ThisKeyword"]

SuperKw == [kind |-> "SuperKeyword"]

\* two node kinds convertExpression has no branch for
Spread == [kind |-> "SpreadElement"]

Template == [kind |-> "TemplateExpression"]

Call(expression, arguments) ==
    [kind |-> "CallExpression", expression |-> expression, arguments |-> arguments]

Binary(left, operatorToken, right) ==
    [kind |-> "BinaryExpression", left |-> left, operatorToken |-> operatorToken,
     right |-> right]

PropertyAccess(expression, name) ==
    [kind |-> "PropertyAccessExpression", expression |-> expression, name |-> name]

ElementAccess(expression, argumentExpression) ==
    [kind |-> "ElementAccessExpression", expression |-> expression,
     argumentExpression |-> argumentExpression]

New(expression, arguments) ==
    [kind |-> "NewExpression", expression |-> expression, arguments |-> arguments]

\* `new Foo`: the parser gives the node no arguments array
NewNoArguments(expression) == [kind |-> "NewExpression", expression |-> expression]

Conditional(condition, whenTrue, whenFalse) ==
    [kind |-> "ConditionalExpression", condition |-> condition,
     whenTrue |-> whenTrue, whenFalse |-> whenFalse]

Parenthesized(expression) ==
    [kind |-> "ParenthesizedExpression", expression |-> expression]

PostfixUnary(operand, operator) ==
    [kind |-> "PostfixUnaryExpression", operand |-> operand, operator |-> operator]

PrefixUnary(operator, operand) ==
    [kind |-> "PrefixUnaryExpression", operand |-> operand, operator |-> operator]

ArrayLiteral(elements) == [kind |-> "ArrayLiteralExpression", elements |-> elements]

Atoms ==
    {Id("a"), Id("b"), Id("c"), Num("42"), Str("s"), TrueKw, FalseKw, NullKw,
     ThisKw, SuperKw, Spread, Template}

\* the operands, arguments and elements of the composite nodes
Kids == {Id("a"), Id("b"), Id("c"), Spread, NewNoArguments(Id("a"))}

ArgLists == SeqsUpTo(Kids, MaxArgs)

PostfixOperators == {"PlusPlusToken", "MinusMinusToken"}

PrefixOperators ==
    {"PlusPlusToken", "MinusMinusToken", "PlusToken", "MinusToken", "TildeToken",
     "ExclamationToken"}

Exprs1 ==
    {Call(e, args) : e \in Kids, args \in ArgLists}
        \cup {Binary(l, o, r) : l \in Kids, o \in {"+", "<"}, r \in Kids}
        \cup {PropertyAccess(e, n) : e \in Kids, n \in {Id("a"), Id("b")}}
        \cup {ElementAccess(e, x) : e \in Kids, x \in Kids \cup {Str("s"), Undefined}}
        \cup {New(e, args) : e \in Kids, args \in ArgLists}
        \cup {NewNoArguments(e) : e \in Kids}
        \cup {Conditional(c, t, f) : c \in Kids, t \in Kids, f \in Kids}
        \cup {Parenthesized(e) : e \in Kids}
        \cup {PostfixUnary(e, o) : e \in Kids, o \in PostfixOperators}
        \cup {PrefixUnary(o, e) : o \in PrefixOperators, e \in Kids}
        \cup {ArrayLiteral(es) : es \in ArgLists}

\* one level more: a composite node over one node of Exprs1 and operands of Kids2
Kids2 == {Id("c"), Spread}

Exprs2 ==
    {Call(e, <<k>>) : e \in Exprs1, k \in Kids2}
        \cup {Call(k, <<e>>) : e \in Exprs1, k \in Kids2}
        \cup {Binary(e, "+", k) : e \in Exprs1, k \in Kids2}
        \cup {Binary(k, "+", e) : e \in Exprs1, k \in Kids2}
        \cup {PropertyAccess(e, Id("c")) : e \in Exprs1}
        \cup {ElementAccess(e, k) : e \in Exprs1, k \in Kids2}
        \cup {New(e, <<>>) : e \in Exprs1}
        \cup {Parenthesized(e) : e \in Exprs1}
        \cup {PrefixUnary("ExclamationToken", e) : e \in Exprs1}
        \cup {ArrayLiteral(<<k, e>>) : e \in Exprs1, k \in Kids2}

Exprs == {Undefined} \cup Atoms \cup Exprs1 \cup Exprs2

-----------------------------------------------------------------------------
(* Inputs: statement nodes *)

MaxDecls == 2

MaxStmts == 2

Declaration(name, initializer) ==
    [kind |-> "VariableDeclaration", name |-> name, initializer |-> initializer]

DeclarationList(declarations) ==
    [kind |-> "VariableDeclarationList", declarations |-> declarations]

VariableStatement(declarations) ==
    [kind |-> "VariableStatement", declarationList |-> DeclarationList(declarations)]

Return(expression) == [kind |-> "ReturnStatement", expression |-> expression]

ThrowStatement(expression) == [kind |-> "ThrowStatement", expression |-> expression]

ExpressionStatement(expression) ==
    [kind |-> "ExpressionStatement", expression |-> expression]

If(expression, thenStatement, elseStatement) ==
    [kind |-> "IfStatement", expression |-> expression,
     thenStatement |-> thenStatement, elseStatement |-> elseStatement]

While(expression, statement) ==
    [kind |-> "WhileStatement", expression |-> expression, statement |-> statement]

ForOf(initializer, expression, statement) ==
    [kind |-> "ForOfStatement", initializer |-> initializer,
     expression |-> expression, statement |-> statement]

For(initializer, condition, incrementor, statement) ==
    [kind |-> "ForStatement", initializer |-> initializer, condition |-> condition,
     incrementor |-> incrementor, statement |-> statement]

Block(statements) == [kind |-> "Block", statements |-> statements]

\* statement kinds convertStatement has no branch for
Break == [kind |-> "BreakStatement"]

Empty == [kind |-> "EmptyStatement"]

Declarations ==
    {Declaration("a", Num("1")), Declaration("b", Num("2")),
     Declaration("c", Undefined), Declaration("d", Spread)}

\* the declarators of the loop initializers
LoopDeclarations == {Declaration("a", Num("1")), Declaration("b", Id("c"))}

DeclLists == SeqsUpTo(Declarations, MaxDecls)

\* `for (let i = 0, j = 1; ...)`, `for (i = 0; ...)` and, in a for statement
\* only, no initializer at all
Initializers ==
    {DeclarationList(ds) : ds \in DeclLists}
        \cup {Binary(Id("a"), "=", Id("b")), Id("a")}

LoopInitializers ==
    {DeclarationList(ds) : ds \in SeqsUpTo(LoopDeclarations, MaxDecls)}
        \cup {Binary(Id("a"), "=", Id("b"))}

Conditions == {Id("a"), Spread}

Stmts0 ==
    {Return(e) : e \in Conditions \cup {Undefined, NewNoArguments(Id("a"))}}
        \cup {ThrowStatement(e) : e \in Conditions}
        \cup {ExpressionStatement(e) : e \in Conditions}
        \cup {VariableStatement(ds) : ds \in DeclLists}
        \cup {Break, Empty, Block(<<>>), Block(<<Return(Id("a"))>>)}

\* the statements of the loop and branch bodies
BodyStmts ==
    {Return(Id("a")),
     VariableStatement(<<Declaration("a", Num("1")), Declaration("b", Num("2"))>>),
     Break}

Bodies == BodyStmts \cup {Block(ss) : ss \in SeqsUpTo(BodyStmts, MaxStmts)}

Stmts1 ==
    {If(c, t, e) : c \in Conditions, t \in Bodies, e \in Bodies \cup {Undefined}}
        \cup {While(c, b) : c \in Conditions, b \in Bodies}
        \cup {ForOf(i, Id("a"), b) : i \in LoopInitializers, b \in Bodies}
        \cup {For(i, c, n, b) : i \in LoopInitializers \cup {Undefined},
                                c \in {Id("a"), Undefined, NewNoArguments(Id("a"))},
                                n \in {PostfixUnary(Id("a"), "PlusPlusToken"), Undefined},
                                b \in Bodies}

Stmts == Stmts0 \cup Stmts1

\* the statements of the braced sequences given to convertBlock
TopStmts ==
    {Return(Id("a")), Break, VariableStatement(<<>>),
     VariableStatement(<<Declaration("a", Num("1")), Declaration("b", Num("2"))>>),
     VariableStatement(<<Declaration("c", Undefined)>>),
     If(Id("a"),
        VariableStatement(<<Declaration("a", Num("1")), Declaration("b", Num("2"))>>),
        Undefined),
     Block(<<Return(Id("a"))>>)}

Blocks == {Block(ss) : ss \in SeqsUpTo(TopStmts, MaxStmts)}

-----------------------------------------------------------------------------
(* Inputs: source files *)

MaxCtors == 2

Parameter(name, type) == [name |-> name, type |-> type]

Constructor(parameters, body) == [parameters |-> parameters, body |-> body]

Method(name, returnType, parameters, body) ==
    [name |-> name, returnType |-> returnType, parameters |-> parameters,
     body |-> body]

Property(declaration, name, type, scope, initializer) ==
    [declaration |-> declaration, name |-> name, type |-> type, scope |-> scope,
     initializer |-> initializer]

Class(name, properties, methods, constructors) ==
    [name |-> name, properties |-> properties, methods |-> methods,
     constructors |-> constructors]

Enum(name, members) == [name |-> name, members |-> members]

SourceFile(enums, classes) == [enums |-> enums, classes |-> classes]

ParamX == Parameter(<<"x">>, Intrinsic(Number))

ParamY == Parameter(<<"y", "$">>, Named(Foo))

\* the last one is a constructor declared without a body (an overload)
Constructors ==
    {Constructor(<<>>, Block(<<>>)),
     Constructor(<<ParamX>>, Block(<<Return(Id("a"))>>)),
     Constructor(<<ParamY, ParamX>>, Block(<<ExpressionStatement(Spread)>>)),
     Constructor(<<ParamX>>, Undefined)}

ConstructorLists == SeqsUpTo(Constructors, MaxCtors)

PropertyLists ==
    {<<>>,
     <<Property("PropertyDeclaration", <<"c", "o", "u", "n", "t">>,
                Intrinsic(Number), "public", [text |-> "5"])>>,
     <<Property("ParameterDeclaration", <<"m", "y", "F">>, Named(Foo),
                "protected", Undefined),
       Property("GetAccessorDeclaration", <<"g">>, Intrinsic(String), "public",
                Undefined),
       Property("PropertyDeclaration", <<"m", "y", "_", "f">>,
                Generic(Array, <<Intrinsic(String)>>), "private", Undefined)>>}

MethodLists ==
    {<<>>,
     <<Method(<<"r", "u", "n">>, Intrinsic(Void), <<ParamX>>,
              Block(<<Return(Undefined)>>))>>,
     <<Method(<<"g", "e", "t", "X">>, Intrinsic(Number), <<>>,
              Block(<<Return(Id("a"))>>)),
       Method(<<"g", "e", "t", "_", "x">>, Named(Bar), <<ParamY>>,
              Block(<<Break>>))>>}

ClassNames == {Foo, <<"f", "o", "o">>, Bar}

Classes ==
    {Class(n, ps, ms, cs) : n \in ClassNames, ps \in PropertyLists,
                            ms \in MethodLists, cs \in ConstructorLists}

\* the classes of the files that declare two classes
PairClasses ==
    {Class(n, ps, ms, cs) : n \in {Foo, <<"f", "o", "o">>},
                            ps \in PropertyLists \ {<<>>},
                            ms \in {<<>>, <<Method(<<"r", "u", "n">>, Intrinsic(Void),
                                                   <<>>, Block(<<>>))>>},
                            cs \in {<<>>, <<Constructor(<<>>, Block(<<>>))>>}}

EnumLists ==
    {<<>>,
     <<Enum(<<"C", "o", "l", "o", "r">>, <<<<"R", "e", "d">>, <<"B", "l", "u", "e">>>>)>>,
     <<Enum(<<"C", "o", "l", "o", "r">>, <<<<"R", "e", "d">>>>),
       Enum(<<"c", "o", "l", "o", "r">>, <<<<"G", "#">>>>)>>}

SourceFiles ==
    {SourceFile(es, <<>>) : es \in EnumLists}
        \cup {SourceFile(es, <<c>>) : es \in EnumLists, c \in Classes}
        \cup {SourceFile(<<>>, <<c, d>>) : c \in PairClasses, d \in PairClasses}

-----------------------------------------------------------------------------
(* App.CompileHandler (src/unnamed/part_000): the /compile handler of the    *)
(* Java test-execution service.                                              *)
(* The server is created without an executor, so the handler runs on the     *)
(* dispatcher thread, one exchange after the other.  A call of handle is     *)
(* given the exchange t (Host header, body), what the compiler, the class    *)
(* loader and the invoked method do with it, and System.out at entry; it     *)
(* leaves the responses sent on the exchange and System.out at return.       *)
(* A Java String is a record [string |-> ...], the null reference is Null.   *)

JavaString(text) == [string |-> text]

\* the stream the JVM starts with, and the static field originalStdout
SystemOut == "System.out"

originalStdout == "originalStdout"

\* new PrintStream(baos), and a stream the invoked method may install
baosStream == "baos"

userStream == "user"

\* host.startsWith(prefix), on texts given as sequences of segments
startsWith(host, prefix) ==
    Len(host) >= Len(prefix) /\ SubSeq(host, 1, Len(prefix)) = prefix

Loopback == <<"127.0.0.1">>

\* new Response(): the long is 0, the references are null
NewResponse == [elapsedMs |-> 0, exceptionText |-> Null, result |-> Null]

\* new Gson().toJson(response): a reference that is null is left out, the
\* long is always written
toJson(response) ==
    [f \in {g \in DOMAIN response : g = "elapsedMs" \/ response[g] # Null} |->
        response[f]]

\* sendTextResponse: the statusCode parameter is not used, the status is 200
sendTextResponse(statusCode, data) == [status |-> 200, body |-> data]

sendResponse(response) == sendTextResponse(200, [json |-> toJson(response)])

exceptionToString(e) == JavaString(e)

\* what the try block leaves: completion "normal", "return" (the return in
\* the host check) or "throw" with the exception e
Normal(response, stdout) ==
    [completion |-> "normal", e |-> "", response |-> response, stdout |-> stdout,
     sent |-> <<>>]

Thrown(e, response, stdout) ==
    [completion |-> "throw", e |-> e, response |-> response, stdout |-> stdout,
     sent |-> <<>>]

HostNotAllowed(host, response, stdout) ==
    [completion |-> "return", e |-> "", response |-> response, stdout |-> stdout,
     sent |-> <<sendTextResponse(403, [text |-> "Host not allowed: ", host |-> host])>>]

\* mutant: System.out is put back only when the invoked method returns
Finally_OnReturnOnly(ends, stdout) ==
    IF ends = "returns" THEN originalStdout ELSE stdout

\* mutant: System.out is not put back
Finally_Skipped(ends, stdout) == stdout

\* finally { System.setOut(originalStdout); }
Finally(ends, stdout) == originalStdout

\* System.out while testMethod runs: the capture stream, unless the method
\* installs a stream of its own
StreamDuringInvoke(testMethod) ==
    IF testMethod.setsOut THEN userStream ELSE baosStream

\* setOut(new PrintStream(baos)); try { invoke } finally { ... }; result; elapsedMs
invokeTestMethod(testMethod, elapsed, response) ==
    IF testMethod.ends = "throws"
    THEN Thrown("InvocationTargetException", response,
                Finally(testMethod.ends, StreamDuringInvoke(testMethod)))
    ELSE Normal([response EXCEPT !.result = JavaString(testMethod.prints),
                                 !.elapsedMs = elapsed],
                Finally(testMethod.ends, StreamDuringInvoke(testMethod)))

\* the else branch of task.call(): loadClass, getMethod, then the invocation
runTest(x, response) ==
    IF ~x.loads THEN Thrown("ClassNotFoundException", response, x.stdout)
    ELSE IF ~x.hasMethod THEN Thrown("NoSuchMethodException", response, x.stdout)
    ELSE invokeTestMethod(x.testMethod, x.elapsed, response)

\* stdlibParts[i].split(" ", 2), then nameAndContent[1]
SplitsInTwo(part) == Len(part) >= 2

compile(x, response) ==
    IF \E i \in 2..Len(x.request.stdlibCode.parts) :
            ~SplitsInTwo(x.request.stdlibCode.parts[i])
    THEN Thrown("ArrayIndexOutOfBoundsException", response, x.stdout)
    ELSE IF ~x.compiles
    THEN Normal([response EXCEPT !.exceptionText = JavaString(x.diagnostics)],
                x.stdout)
    ELSE runTest(x, response)

\* getRequest and request.stdlibCode.split
readRequest(x, response) ==
    IF x.body = "unreadable" THEN Thrown("IOException", response, x.stdout)
    ELSE IF x.body = "malformed" THEN Thrown("JsonSyntaxException", response, x.stdout)
    ELSE IF x.request = Null THEN Thrown("NullPointerException", response, x.stdout)
    ELSE IF x.request.stdlibCode = Null
    THEN Thrown("NullPointerException", response, x.stdout)
    ELSE compile(x, response)

\* the try block of handle
tryBlock(x, response) ==
    IF x.host = Null THEN Thrown("NullPointerException", response, x.stdout)
    ELSE IF ~startsWith(x.host.segments, Loopback)
    THEN HostNotAllowed(x.host.segments, response, x.stdout)
    ELSE readRequest(x, response)

\* catch (Throwable e) { response.exceptionText = exceptionToString(e); ... }
catch(tried) ==
    IF tried.completion = "throw"
    THEN [tried EXCEPT !.completion = "normal",
                       !.response.exceptionText = exceptionToString(tried.e)]
    ELSE tried

\* after the try statement: sendResponse(t, response), unless it returned
afterTry(tried) ==
    IF tried.completion = "return" THEN tried
    ELSE [tried EXCEPT !.sent = tried.sent \o <<sendResponse(tried.response)>>]

handle(x) ==
    [sent |-> afterTry(catch(tryBlock(x, NewResponse))).sent,
     stdout |-> afterTry(catch(tryBlock(x, NewResponse))).stdout]

-----------------------------------------------------------------------------
(* Inputs: exchanges *)

Hosts ==
    {Null,
     [segments |-> <<"127.0.0.1">>],
     [segments |-> <<"127.0.0.1", ":8001">>],
     [segments |-> <<"localhost", ":8001">>],
     [segments |-> <<"10.0.0.1", "127.0.0.1">>]}

\* stdlibCode by its parts between "\nclass ": the imports, then one
\* <<name, content>> per class, or <<name>> alone when no blank follows it
StdlibCode(parts) == [parts |-> parts]

StdlibCodes ==
    {Null, StdlibCode(<<<<"import">>>>),
     StdlibCode(<<<<"import">>, <<"one", "{}">>>>),
     StdlibCode(<<<<"import">>, <<"one", "{}">>, <<"Two{}">>>>)}

Request(stdlibCode) ==
    [code |-> JavaString("class TestClass"), stdlibCode |-> stdlibCode,
     className |-> JavaString("TestClass"), methodName |-> JavaString("main")]

Requests == {Null} \cup {Request(c) : c \in StdlibCodes}

TestMethods ==
    [ends : {"returns", "throws"}, setsOut : BOOLEAN, prints : {"", "ok"}]

Exchange(host, body, request, compiles, loads, hasMethod, testMethod, stdout) ==
    [host |-> host, body |-> body, request |-> request, compiles |-> compiles,
     diagnostics |-> "error: ';' expected", loads |-> loads,
     hasMethod |-> hasMethod, testMethod |-> testMethod, elapsed |-> 3,
     stdout |-> stdout]

\* the exchanges whose body cannot be read, and those with a request whose
\* compilation and test run go every way
Exchanges ==
    {Exchange(h, b, Null, TRUE, TRUE, TRUE,
              [ends |-> "returns", setsOut |-> FALSE, prints |-> ""], o) :
        h \in Hosts, b \in {"unreadable", "malformed"},
        o \in {SystemOut, originalStdout}}
      \cup
    {Exchange(h, "json", r, c, l, m, tm, o) :
        h \in Hosts, r \in Requests, c \in BOOLEAN, l \in BOOLEAN,
        m \in BOOLEAN, tm \in TestMethods, o \in {SystemOut, originalStdout}}

-----------------------------------------------------------------------------
(* The calls *)

CallNameToKS ==
    /\ op = "nameToKS" /\ ret = Pending
    /\ ret' = nameToKS(arg)
    /\ UNCHANGED <<op, arg>>

CallConvertTsType ==
    /\ op = "convertTsType" /\ ret = Pending
    /\ ret' = convertTsType(arg)
    /\ UNCHANGED <<op, arg>>

CallConvertExpression ==
    /\ op = "convertExpression" /\ ret = Pending
    /\ ret' = convertExpression(arg)
    /\ UNCHANGED <<op, arg>>

CallConvertVariableDeclaration ==
    /\ op = "convertVariableDeclaration" /\ ret = Pending
    /\ ret' = convertVariableDeclaration(arg)
    /\ UNCHANGED <<op, arg>>

CallConvertInitializer ==
    /\ op = "convertInitializer" /\ ret = Pending
    /\ ret' = convertInitializer(arg)
    /\ UNCHANGED <<op, arg>>

CallConvertStatement ==
    /\ op = "convertStatement" /\ ret = Pending
    /\ ret' = convertStatement(arg)
    /\ UNCHANGED <<op, arg>>

CallConvertBlock ==
    /\ op = "convertBlock" /\ ret = Pending
    /\ ret' = convertBlock(arg)
    /\ UNCHANGED <<op, arg>>

CallCreateSchemaFromSourceFile ==
    /\ op = "createSchemaFromSourceFile" /\ ret = Pending
    /\ ret' = createSchemaFromSourceFile(arg)
    /\ UNCHANGED <<op, arg>>

InitName == op = "nameToKS" /\ arg \in Names /\ ret = Pending

InitType == op = "convertTsType" /\ arg \in Types /\ ret = Pending

InitExpr == op = "convertExpression" /\ arg \in Exprs /\ ret = Pending

InitStmt ==
    /\ ret = Pending
    /\ \/ op = "convertVariableDeclaration" /\ arg \in Declarations \cup {Undefined}
       \/ op = "convertInitializer" /\ arg \in Initializers \cup {Undefined}
       \/ op = "convertStatement" /\ arg \in Stmts \cup {Undefined}
       \/ op = "convertBlock" /\ arg \in Stmts \cup Blocks \cup {Undefined}

NextStmt ==
    \/ CallConvertVariableDeclaration
    \/ CallConvertInitializer
    \/ CallConvertStatement
    \/ CallConvertBlock

InitSchema ==
    op = "createSchemaFromSourceFile" /\ arg \in SourceFiles /\ ret = Pending

SpecName == InitName /\ [][CallNameToKS]_vars

SpecType == InitType /\ [][CallConvertTsType]_vars

SpecExpr == InitExpr /\ [][CallConvertExpression]_vars

SpecStmt == InitStmt /\ [][NextStmt]_vars

SpecSchema == InitSchema /\ [][CallCreateSchemaFromSourceFile]_vars

\* one exchange handled from the call of handle to its return
CallHandle ==
    /\ op = "handle" /\ ret = Pending
    /\ ret' = handle(arg)
    /\ UNCHANGED <<op, arg>>

\* the dispatcher takes the next exchange: System.out is what the last
\* call left
NextExchange ==
    /\ op = "handle" /\ ret # Pending
    /\ arg' \in {x \in Exchanges : x.stdout = ret.stdout}
    /\ ret' = Pending
    /\ UNCHANGED op

InitServer ==
    op = "handle" /\ arg \in {x \in Exchanges : x.stdout = SystemOut} /\ ret = Pending

NextServer == CallHandle \/ NextExchange

SpecServer == InitServer /\ [][NextServer]_vars

\* parseFile: the one call that a run of the parser makes
Init == InitName \/ InitType \/ InitExpr \/ InitStmt \/ InitSchema

Next ==
    \/ CallNameToKS
    \/ CallConvertTsType
    \/ CallConvertExpression
    \/ NextStmt
    \/ CallCreateSchemaFromSourceFile

Spec == Init /\ [][Next]_vars

-----------------------------------------------------------------------------
(* Claims about nameToKS, under SpecName *)

Returned == ret # Pending

UpperLetters ==
    {"A", "B", "C", "D", "E", "F", "G", "H", "I", "J", "K", "L", "M", "N", "O",
     "P", "Q", "R", "S", "T", "U", "V", "W", "X", "Y", "Z"}

LowerLetters ==
    {"a", "b", "c", "d", "e", "f", "g", "h", "i", "j", "k", "l", "m", "n", "o",
     "p", "q", "r", "s", "t", "u", "v", "w", "x", "y", "z"}

Digits == {"0", "1", "2", "3", "4", "5", "6", "7", "8", "9"}

LowerOf ==
    [c \in UpperLetters |->
        CHOOSE d \in LowerLetters :
            \E i \in 1..Len(Printable) :
                Printable[i] = c /\ Printable[i + CaseOffset] = d]

ValidChar(c) == c \in UpperLetters \cup LowerLetters \cup Digits \cup {"_"}

\* what the character at position i of name contributes to the result
Emitted(name, i) ==
    LET c == name[i] IN
    IF c \in UpperLetters
    THEN (IF \E j \in 1..(i - 1) : ValidChar(name[j]) THEN <<"_">> ELSE <<>>)
             \o <<LowerOf[c]>>
    ELSE IF ValidChar(c) THEN <<c>>
    ELSE <<>>

InvalidPositions(name) == {i \in 1..Len(name) : ~ValidChar(name[i])}

\* C5: normalizing an already normalized name returns it unchanged and
\* reports no diagnostic: nameToKS(nameToKS(x)) = nameToKS(x) for every x.
C5_Idempotent ==
    (op = "nameToKS" /\ Returned) =>
        LET again == nameToKS(ret.val)
        IN /\ ~again.threw
           /\ again.val = ret.val
           /\ again.log = <<>>

\* a name with an uppercase letter after a plain one and an invalid character
C5_Witness ==
    /\ op = "nameToKS" /\ Returned
    /\ arg = <<"z", "A", "$", "2">>
    /\ ret.val = <<"z", "_", "a", "2">>

\* C6: the name is processed left to right; an uppercase letter is emitted
\* lowercased with "_" before it unless nothing was emitted yet, a lowercase
\* letter, digit or "_" is emitted unchanged, any other character is left
\* out and reported once with the original name.  So the result is over
\* [a-z0-9_], there is one diagnostic per invalid character, and MyClass,
\* fieldName, thing2 give my_class, field_name, thing2.
C6_Normalize ==
    (op = "nameToKS" /\ Returned) =>
        /\ ~ret.threw
        /\ ret.val = Flatten([i \in 1..Len(arg) |-> Emitted(arg, i)])
        /\ \A i \in 1..Len(ret.val) :
              ret.val[i] \in LowerLetters \cup Digits \cup {"_"}
        /\ Len(ret.log) = Cardinality(InvalidPositions(arg))
        /\ \A k \in 1..Len(ret.log) :
              /\ ret.log[k].msg = "Invalid character in name"
              /\ ret.log[k].name = arg
              /\ ~ValidChar(ret.log[k].c)
        /\ (arg = MyClass => ret.val = <<"m", "y", "_", "c", "l", "a", "s", "s">>)
        /\ (arg = fieldName =>
                ret.val = <<"f", "i", "e", "l", "d", "_", "n", "a", "m", "e">>)
        /\ (arg = thing2 => ret.val = thing2)

\* an invalid character first, then an uppercase letter that starts the result
C6_Witness ==
    /\ op = "nameToKS" /\ Returned
    /\ arg = <<"$", "A", "A", "$">>
    /\ ret.val = <<"a", "_", "a">>
    /\ Len(ret.log) = 2

-----------------------------------------------------------------------------
(* Claims about convertTsType, under SpecType *)

\* C7: number, string, boolean, void give Int32, String, Boolean, Void with
\* neither className nor typeArguments; Array gives the Array variant with no
\* className; any other name gives Class with the normalized name.  For
\* Array and Class typeArguments is present exactly when the resolved type
\* carries type arguments, and is then the lowered arguments, in order.
C7_TypeMapping ==
    (op = "convertTsType" /\ Returned /\ ~ret.threw) =>
        LET typeText == TypeText(arg) IN
        /\ (typeText = Number => ret.val = [type |-> "Int32"])
        /\ (typeText = String => ret.val = [type |-> "String"])
        /\ (typeText = Boolean => ret.val = [type |-> "Boolean"])
        /\ (typeText = Void => ret.val = [type |-> "Void"])
        /\ (typeText = Array =>
                ret.val.type = "Array" /\ ~HasField(ret.val, "className"))
        /\ (typeText \notin {Number, String, Boolean, Void, Array} =>
                /\ ret.val.type = "Class"
                /\ ret.val.className = nameToKS(typeText).val)
        /\ (typeText \notin {Number, String, Boolean, Void} =>
                /\ HasField(ret.val, "typeArguments") <=> HasField(arg, "typeArguments")
                /\ HasField(arg, "typeArguments") =>
                      /\ Len(ret.val.typeArguments) = Len(arg.typeArguments)
                      /\ \A i \in 1..Len(arg.typeArguments) :
                            ret.val.typeArguments[i] =
                                convertTsType(arg.typeArguments[i]).val)
        /\ (arg = Generic(Array, <<Intrinsic(String)>>) =>
                ret.val = [type |-> "Array", typeArguments |-> <<[type |-> "String"]>>])
        /\ (arg = Generic(Foo, <<Named(Bar)>>) =>
                ret.val = [type |-> "Class", className |-> <<"f", "o", "o">>,
                           typeArguments |->
                               <<[type |-> "Class", className |-> <<"b", "a", "r">>]>>])

\* Foo<number, Bar>: two different type arguments, lowered in declared order
C7_Witness ==
    /\ op = "convertTsType" /\ Returned /\ ~ret.threw
    /\ arg = Generic(Foo, <<Intrinsic(Number), Named(Bar)>>)
    /\ ret.val.typeArguments =
           <<[type |-> "Int32"], [type |-> "Class", className |-> <<"b", "a", "r">>]>>

-----------------------------------------------------------------------------
(* Claims about convertExpression, under SpecExpr *)

ExpressionKinds ==
    {"CallExpression", "BinaryExpression", "PropertyAccessExpression",
     "ElementAccessExpression", "Identifier", "NewExpression",
     "ConditionalExpression", "StringLiteral", "NumericLiteral", "FalseKeyword",
     "TrueKeyword", "NullKeyword", "ParenthesizedExpression",
     "PostfixUnaryExpression", "PrefixUnaryExpression", "ArrayLiteralExpression"}

\* a node outside the expression grammar that is not this or super
UnsupportedExpression(node) ==
    /\ node # Undefined
    /\ node.kind \notin ExpressionKinds \cup {"ThisKeyword", "SuperKeyword"}

\* the child expressions of a node, in source order; a node array that is
\* absent has no children
ChildNodes(node) ==
    IF node.kind = "CallExpression" THEN <<node.expression>> \o node.arguments
    ELSE IF node.kind = "BinaryExpression" THEN <<node.left, node.right>>
    ELSE IF node.kind = "PropertyAccessExpression" THEN <<node.expression, node.name>>
    ELSE IF node.kind = "ElementAccessExpression"
    THEN <<node.expression, node.argumentExpression>>
    ELSE IF node.kind = "NewExpression"
    THEN <<node.expression>> \o (IF HasField(node, "arguments") THEN node.arguments
                                 ELSE <<>>)
    ELSE IF node.kind = "ConditionalExpression"
    THEN <<node.condition, node.whenTrue, node.whenFalse>>
    ELSE IF node.kind = "ParenthesizedExpression" THEN <<node.expression>>
    ELSE IF node.kind \in {"PostfixUnaryExpression", "PrefixUnaryExpression"}
    THEN <<node.operand>>
    ELSE IF node.kind = "ArrayLiteralExpression" THEN node.elements
    ELSE <<>>

\* the same positions of a lowered expression
ChildResults(e) ==
    IF e.type = "Call" THEN <<e.method>> \o e.arguments
    ELSE IF e.type = "Binary" THEN <<e.left, e.right>>
    ELSE IF e.type = "PropertyAccess" THEN <<e.object, e.propertyName>>
    ELSE IF e.type = "New" THEN <<e.class>> \o e.arguments
    ELSE IF e.type = "Conditional" THEN <<e.condition, e.whenTrue, e.whenFalse>>
    ELSE IF e.type = "Parenthesized" THEN <<e.expression>>
    ELSE IF e.type = "Unary" THEN <<e.operand>>
    ELSE IF e.type = "ArrayLiteral" THEN e.items
    ELSE <<>>

\* the lowering of the node stops for a reason of its own or of a child
\* that is not an unsupported node
StopsAnyway(node) ==
    \/ node.kind = "NewExpression" /\ ~HasField(node, "arguments")
    \/ \E i \in 1..Len(ChildNodes(node)) : convertExpression(ChildNodes(node)[i]).threw

\* C2: a node outside the expression grammar, not this/super, appends exactly
\* one diagnostic and is lowered to null at its own position only: in its
\* parent every other child keeps its own lowering (not null for a supported
\* node) and the parent is still produced.
C2_UnsupportedExpression ==
    (op = "convertExpression" /\ Returned /\ arg # Undefined) =>
        /\ UnsupportedExpression(arg) =>
              /\ ~ret.threw
              /\ ret.val = Null
              /\ ret.log = <<UnexpectedExpressionKind(arg.kind)>>
        /\ ((\E i \in 1..Len(ChildNodes(arg)) : UnsupportedExpression(ChildNodes(arg)[i]))
                /\ ~StopsAnyway(arg)) =>
              /\ ~ret.threw
              /\ ret.val # Null
              /\ Len(ChildResults(ret.val)) = Len(ChildNodes(arg))
              /\ \A i \in 1..Len(ChildNodes(arg)) :
                    LET child == ChildNodes(arg)[i]
                        lowered == ChildResults(ret.val)[i]
                    IN /\ lowered = convertExpression(child).val
                       /\ UnsupportedExpression(child) => lowered = Null
                       /\ (child # Undefined /\ ~UnsupportedExpression(child)) =>
                             lowered # Null
              /\ ret.log = Flatten([i \in 1..Len(ChildNodes(arg)) |->
                                       convertExpression(ChildNodes(arg)[i]).log])

\* f(...x, b): the second argument is lowered next to the null of the first
C2_Witness ==
    /\ op = "convertExpression" /\ Returned
    /\ arg = Call(Id("a"), <<Spread, Id("b")>>)
    /\ ret.val.arguments = <<Null, [type |-> "Identifier", text |-> "b"]>>
    /\ Len(ret.log) = 1

\* C10: a[b] and a.b are lowered alike, to PropertyAccess with the lowered
\* object and the lowered name or index, so a.b[c] is a PropertyAccess over a
\* PropertyAccess and nothing in the result tells the two forms apart.
C10_AccessUnified ==
    (op = "convertExpression" /\ Returned /\ arg # Undefined) =>
        /\ arg.kind = "ElementAccessExpression" =>
              /\ ret = convertExpression(PropertyAccess(arg.expression,
                                                        arg.argumentExpression))
              /\ ~ret.threw =>
                    /\ ret.val = [type |-> "PropertyAccess",
                                  object |-> convertExpression(arg.expression).val,
                                  propertyName |->
                                      convertExpression(arg.argumentExpression).val]
        /\ arg.kind = "PropertyAccessExpression" =>
              /\ ret = convertExpression(ElementAccess(arg.expression, arg.name))
              /\ ~ret.threw =>
                    /\ ret.val = [type |-> "PropertyAccess",
                                  object |-> convertExpression(arg.expression).val,
                                  propertyName |-> convertExpression(arg.name).val]
        /\ arg = ElementAccess(PropertyAccess(Id("a"), Id("b")), Id("c")) =>
              ret.val =
                  [type |-> "PropertyAccess",
                   object |-> [type |-> "PropertyAccess",
                               object |-> [type |-> "Identifier", text |-> "a"],
                               propertyName |-> [type |-> "Identifier", text |-> "b"]],
                   propertyName |-> [type |-> "Identifier", text |-> "c"]]

\* a.b[c] has been lowered
C10_Witness ==
    /\ op = "convertExpression" /\ Returned /\ ~ret.threw
    /\ arg = ElementAccess(PropertyAccess(Id("a"), Id("b")), Id("c"))
    /\ ret.val.type = "PropertyAccess" /\ ret.val.object.type = "PropertyAccess"

-----------------------------------------------------------------------------
(* Claims about convertStatement, convertBlock and convertInitializer, under *)
(* SpecStmt                                                                  *)

StatementKinds ==
    {"IfStatement", "ReturnStatement", "ThrowStatement", "ExpressionStatement",
     "VariableStatement", "WhileStatement", "ForOfStatement", "ForStatement"}

UnsupportedStatement(node) == node # Undefined /\ node.kind \notin StatementKinds

Braced(node) == node # Undefined /\ HasField(node, "statements")

\* C1: a statement of a kind outside the grammar reports a diagnostic and
\* contributes no entry: convertStatement returns the empty list, and a block
\* holds no entry, in particular no null entry, for that statement.
C1_UnsupportedDropped ==
    /\ (op = "convertStatement" /\ Returned /\ UnsupportedStatement(arg)) =>
          /\ ~ret.threw
          /\ Len(ret.log) = 1
          /\ ret.val = <<>>
    /\ (op = "convertBlock" /\ Returned /\ Braced(arg) /\ ~ret.threw) =>
          \A k \in 1..Len(ret.val.statements) : ret.val.statements[k] # Null

\* the Variable statement that a declarator lowers to
VariableOf(declaration) ==
    [type |-> "Variable", variableName |-> declaration.name,
     initializer |-> convertExpression(declaration.initializer).val]

\* the lowering of a part of the loop other than its initializer stops
RestStops(loop) ==
    \/ convertBlock(loop.statement).threw
    \/ loop.kind = "ForOfStatement" /\ convertExpression(loop.expression).threw
    \/ loop.kind = "ForStatement" /\ convertExpression(loop.condition).threw
    \/ loop.kind = "ForStatement" /\ convertExpression(loop.incrementor).threw

\* C4: convertInitializer, for the for and the for-of statement alike: a list
\* of one declarator gives its Variable and no diagnostic of its own; a list
\* of several gives one diagnostic and the Variable of the first declarator
\* only; an initializer that is no declaration list gives one diagnostic and
\* no item variable.  In all three cases the enclosing loop is lowered with
\* that item variable (unless another part of the loop stops the lowering).
C4_LoopInitializer ==
    /\ (op = "convertInitializer" /\ Returned /\ arg # Undefined) =>
          /\ (arg.kind = "VariableDeclarationList" /\ Len(arg.declarations) = 1) =>
                /\ ~ret.threw
                /\ ret.val = VariableOf(arg.declarations[1])
                /\ ret.log = convertExpression(arg.declarations[1].initializer).log
          /\ (arg.kind = "VariableDeclarationList" /\ Len(arg.declarations) > 1) =>
                /\ ~ret.threw
                /\ ret.val = VariableOf(arg.declarations[1])
                /\ ret.log = <<MultipleDeclarations>>
                                 \o convertExpression(arg.declarations[1].initializer).log
          /\ arg.kind # "VariableDeclarationList" =>
                /\ ~ret.threw
                /\ ret.val = Undefined
                /\ ret.log = <<InitializerNotSupported(arg.kind)>>
    /\ (/\ op = "convertStatement" /\ Returned /\ arg # Undefined
        /\ arg.kind \in {"ForStatement", "ForOfStatement"}
        /\ arg.initializer # Undefined
        /\ arg.initializer.kind = "VariableDeclarationList" =>
               Len(arg.initializer.declarations) >= 1
        /\ ~RestStops(arg)) =>
          /\ ~ret.threw
          /\ Len(ret.val) = 1
          /\ ret.val[1].type = (IF arg.kind = "ForStatement" THEN "For" ELSE "Foreach")
          /\ ret.val[1].itemVariable = convertInitializer(arg.initializer).val
          /\ SubSeq(ret.log, 1, Len(convertInitializer(arg.initializer).log))
                 = convertInitializer(arg.initializer).log

\* for (let a = 1, b = c of a) ...: one diagnostic, the first declarator kept
C4_Witness ==
    /\ op = "convertStatement" /\ Returned /\ ~ret.threw
    /\ arg # Undefined /\ arg.kind = "ForOfStatement"
    /\ arg.initializer =
           DeclarationList(<<Declaration("a", Num("1")), Declaration("b", Id("c"))>>)
    /\ ret.val[1].itemVariable.variableName = "a"
    /\ ret.log[1] = MultipleDeclarations

\* how many entries the statements before position i of a block lower to
RECURSIVE EntriesBefore(_, _)
EntriesBefore(statements, i) ==
    IF i <= 1 THEN 0
    ELSE EntriesBefore(statements, i - 1)
             + Len(convertStatement(statements[i - 1]).val)

\* C8: a variable statement of n declarators lowers to n Variable statements
\* in declaration order, and a braced sequence lowers to its statements'
\* lists one after the other: the entries of statement i are adjacent, after
\* those of every earlier statement and before those of every later one.
C8_Expansion ==
    /\ (op = "convertStatement" /\ Returned /\ ~ret.threw /\ arg # Undefined
        /\ arg.kind = "VariableStatement") =>
          LET declarations == arg.declarationList.declarations
          IN /\ Len(ret.val) = Len(declarations)
             /\ \A i \in 1..Len(declarations) :
                   ret.val[i] = VariableOf(declarations[i])
    /\ (op = "convertBlock" /\ Returned /\ ~ret.threw /\ Braced(arg)) =>
          /\ Len(ret.val.statements) = EntriesBefore(arg.statements,
                                                     Len(arg.statements) + 1)
          /\ \A i \in 1..Len(arg.statements) :
                LET entries == convertStatement(arg.statements[i]).val
                IN \A k \in 1..Len(entries) :
                      ret.val.statements[EntriesBefore(arg.statements, i) + k]
                          = entries[k]

\* { let a = 1, b = 2; return a; }
C8_Witness ==
    /\ op = "convertBlock" /\ Returned /\ ~ret.threw
    /\ arg = Block(<<VariableStatement(<<Declaration("a", Num("1")),
                                         Declaration("b", Num("2"))>>),
                     Return(Id("a"))>>)
    /\ Len(ret.val.statements) = 3
    /\ ret.val.statements[1].variableName = "a"
    /\ ret.val.statements[2].variableName = "b"
    /\ ret.val.statements[3].type = "Return"

\* the statement with its bodies put in braces
Embraced(node) ==
    LET braces(body) == IF body = Undefined \/ Braced(body) THEN body
                        ELSE Block(<<body>>)
    IN IF node.kind = "IfStatement"
       THEN If(node.expression, braces(node.thenStatement), braces(node.elseStatement))
       ELSE IF node.kind = "WhileStatement"
       THEN While(node.expression, braces(node.statement))
       ELSE IF node.kind = "ForOfStatement"
       THEN ForOf(node.initializer, node.expression, braces(node.statement))
       ELSE IF node.kind = "ForStatement"
       THEN For(node.initializer, node.condition, node.incrementor,
                braces(node.statement))
       ELSE node

IsBlock(v) == v # Undefined /\ DOMAIN v = {"statements"}

\* C9: a bare body s and the braced body { s } lower to the same Block, so
\* the then/else of an If and the body of a While, For or Foreach is a Block
\* with a statements sequence whichever form the source used.
C9_BareAsBraced ==
    /\ (op = "convertBlock" /\ Returned /\ arg # Undefined /\ ~Braced(arg)
        /\ arg.kind \in StatementKinds) =>
          /\ ret = convertBlock(Block(<<arg>>))
          /\ ~ret.threw => IsBlock(ret.val)
    /\ (op = "convertStatement" /\ Returned /\ arg # Undefined
        /\ arg.kind \in {"IfStatement", "WhileStatement", "ForOfStatement",
                         "ForStatement"}) =>
          /\ ret = convertStatement(Embraced(arg))
          /\ ~ret.threw =>
                IF arg.kind = "IfStatement"
                THEN /\ IsBlock(ret.val[1].then)
                     /\ arg.elseStatement # Undefined => IsBlock(ret.val[1].else)
                ELSE IsBlock(ret.val[1].body)

\* if (a) let a = 1, b = 2;  with the bare two-entry body
C9_Witness ==
    /\ op = "convertStatement" /\ Returned /\ ~ret.threw
    /\ arg = If(Id("a"),
                VariableStatement(<<Declaration("a", Num("1")),
                                    Declaration("b", Num("2"))>>),
                Return(Id("a")))
    /\ Len(ret.val[1].then.statements) = 2
    /\ Len(ret.val[1].else.statements) = 1

-----------------------------------------------------------------------------
(* Claims about createSchemaFromSourceFile, under SpecSchema *)

SeveralConstructors(tsClass) == Len(tsClass.constructors) > 1

DeclaresSeveralConstructors(typeInfo) ==
    \E i \in 1..Len(typeInfo.classes) : SeveralConstructors(typeInfo.classes[i])

\* the class with the constructors after the first one deleted
FirstConstructorOnly(tsClass) ==
    IF SeveralConstructors(tsClass)
    THEN [tsClass EXCEPT !.constructors = <<tsClass.constructors[1]>>]
    ELSE tsClass

\* the source file with every class cut down to its first constructor
WithoutOverloads(typeInfo) ==
    [typeInfo EXCEPT !.classes =
        [i \in 1..Len(typeInfo.classes) |-> FirstConstructorOnly(typeInfo.classes[i])]]

\* the additional constructors change neither the schema nor whether the run
\* gives up: both are those of the file cut down to the first constructors
FirstConstructorRetained ==
    (op = "createSchemaFromSourceFile" /\ Returned
     /\ DeclaresSeveralConstructors(arg)) =>
        /\ ret.threw = createSchemaFromSourceFile(WithoutOverloads(arg)).threw
        /\ ret.val = createSchemaFromSourceFile(WithoutOverloads(arg)).val

\* the additional constructors are reported: the run leaves more diagnostics
\* than the file cut down to the first constructors does
OverloadsReported ==
    (op = "createSchemaFromSourceFile" /\ Returned
     /\ DeclaresSeveralConstructors(arg)) =>
        Len(ret.log) > Len(createSchemaFromSourceFile(WithoutOverloads(arg)).log)

\* C3: when a class declares more than one constructor, the schema builder
\* reports it through the diagnostic sink and does not give up because of it;
\* the constructor entry of the class is made of the first declared
\* constructor only and the other constructors add nothing to the schema.
C3_SeveralConstructors == FirstConstructorRetained /\ OverloadsReported

\* a class of two well-formed constructors: the schema is built, the entry is
\* that of the first one, and nothing at all has been reported
C3_Silent ==
    /\ op = "createSchemaFromSourceFile" /\ Returned
    /\ arg = SourceFile(<<>>, <<Class(Foo, <<>>, <<>>,
                 <<Constructor(<<ParamX>>, Block(<<Return(Id("a"))>>)),
                   Constructor(<<>>, Block(<<>>))>>)>>)
    /\ ~ret.threw
    /\ DOMAIN ret.val.classes = {nameToKS(Foo).val}
    /\ ret.val.classes[nameToKS(Foo).val].constructor =
          convertConstructor(arg.classes[1].constructors[1]).val
    /\ Len(ret.val.classes[nameToKS(Foo).val].constructor.parameters) = 1
    /\ ret.log = <<>>

\* the keys that the declarations normalize to
Keys(decls) == {nameToKS(decls[i].name).val : i \in 1..Len(decls)}

\* the declaration processed last among those that normalize to key
LastOf(decls, key) ==
    decls[CHOOSE i \in 1..Len(decls) :
             /\ nameToKS(decls[i].name).val = key
             /\ \A j \in (i + 1)..Len(decls) : nameToKS(decls[j].name).val # key]

\* the properties that become fields, in declaration order
FieldDeclarations(tsClass) ==
    SelectSeq(tsClass.properties,
              LAMBDA tsProp : tsProp.declaration # "GetAccessorDeclaration")

\* the entry is made of the class tsClass and of nothing else
EntryOfClass(entry, tsClass) ==
    /\ DOMAIN entry = {"fields", "methods"}
            \cup (IF tsClass.constructors # <<>> THEN {"constructor"} ELSE {})
    /\ DOMAIN entry.fields = Keys(FieldDeclarations(tsClass))
    /\ \A k \in DOMAIN entry.fields :
          entry.fields[k] = fieldSchema(LastOf(FieldDeclarations(tsClass), k)).val
    /\ DOMAIN entry.methods = Keys(tsClass.methods)
    /\ \A k \in DOMAIN entry.methods :
          entry.methods[k] = methodSchema(LastOf(tsClass.methods, k)).val
    /\ tsClass.constructors # <<>> =>
          entry.constructor = convertConstructor(tsClass.constructors[1]).val

\* C11: the keys of the enums, classes, fields and methods maps are the
\* normalized names; when several declarations normalize to one key the map
\* holds one entry under it, and that entry is wholly the one of the
\* declaration processed last (of an earlier class of the same key no field,
\* method or constructor remains).
C11_LastWriteWins ==
    (op = "createSchemaFromSourceFile" /\ Returned /\ ~ret.threw) =>
        /\ DOMAIN ret.val.enums = Keys(arg.enums)
        /\ \A k \in DOMAIN ret.val.enums :
              ret.val.enums[k] =
                  [values |-> enumValues(LastOf(arg.enums, k).members).val]
        /\ DOMAIN ret.val.classes = Keys(arg.classes)
        /\ \A k \in DOMAIN ret.val.classes :
              EntryOfClass(ret.val.classes[k], LastOf(arg.classes, k))

\* class Foo (a field, a method, a constructor) followed by class foo (two
\* fields that collide on my_f, no method, no constructor): one entry, with
\* the private field only and nothing of Foo
C11_Witness ==
    /\ op = "createSchemaFromSourceFile" /\ Returned /\ ~ret.threw
    /\ Len(arg.classes) = 2
    /\ arg.classes[1].name = Foo /\ arg.classes[2].name = <<"f", "o", "o">>
    /\ Len(arg.classes[1].properties) = 1 /\ Len(arg.classes[2].properties) = 3
    /\ arg.classes[1].methods # <<>> /\ arg.classes[2].methods = <<>>
    /\ arg.classes[1].constructors # <<>> /\ arg.classes[2].constructors = <<>>
    /\ Cardinality(DOMAIN ret.val.classes) = 1
    /\ \A k \in DOMAIN ret.val.classes :
          /\ DOMAIN ret.val.classes[k] = {"fields", "methods"}
          /\ ret.val.classes[k].methods = EmptyMap
          /\ Cardinality(DOMAIN ret.val.classes[k].fields) = 1
          /\ \A f \in DOMAIN ret.val.classes[k].fields :
                ret.val.classes[k].fields[f].visibility = "Private"

-----------------------------------------------------------------------------
(* Claims about the slots of the for statement, under SpecStmt *)

IsFor == op = "convertStatement" /\ Returned /\ arg # Undefined
            /\ arg.kind = "ForStatement"

\* a slot that is present and whose own lowering gives up
PresentSlotStops ==
    \/ arg.initializer # Undefined /\ convertInitializer(arg.initializer).threw
    \/ convertExpression(arg.condition).threw
    \/ convertExpression(arg.incrementor).threw
    \/ convertBlock(arg.statement).threw

\* the For statement with the slots that are there lowered and the omitted
\* ones absent
ForWithSlots ==
    [type |-> "For",
     itemVariable |-> IF arg.initializer = Undefined THEN Undefined
                      ELSE convertInitializer(arg.initializer).val,
     condition |-> IF arg.condition = Undefined THEN Undefined
                   ELSE convertExpression(arg.condition).val,
     incrementor |-> IF arg.incrementor = Undefined THEN Undefined
                     ELSE convertExpression(arg.incrementor).val,
     body |-> convertBlock(arg.statement).val]

\* with the initializer there, an omitted condition or incrementor lowers to
\* an absent value and the other slots and the body are lowered as usual
ExpressionSlotsOptional ==
    (IsFor /\ arg.initializer # Undefined
     /\ (arg.condition = Undefined \/ arg.incrementor = Undefined)) =>
        /\ ret.threw = PresentSlotStops
        /\ ~ret.threw => ret.val = <<ForWithSlots>>

\* with the initializer omitted, the lowering completes with an absent
\* itemVariable
InitializerOptional ==
    (IsFor /\ arg.initializer = Undefined) =>
        /\ ret.threw = PresentSlotStops
        /\ ~ret.threw => ret.val = <<ForWithSlots>>

\* C12: the optional slots of a for statement are optional: with the
\* initializer omitted the lowering completes and gives a For statement with
\* an absent itemVariable; an omitted condition or incrementor lowers to an
\* absent value, the remaining slots and the body being lowered normally.
C12_OptionalSlots == InitializerOptional /\ ExpressionSlotsOptional

\* for (; a; a++) return a;  gives up, and so without a diagnostic
C12_Aborted ==
    /\ op = "convertStatement" /\ Returned
    /\ arg = For(Undefined, Id("a"), PostfixUnary(Id("a"), "PlusPlusToken"),
                 Return(Id("a")))
    /\ ret.threw /\ ret.log = <<>>

\* for (let a = 1; ; ) return a;  is lowered, condition and incrementor absent
C12_ExpressionSlotsOmitted ==
    /\ IsFor /\ ~ret.threw
    /\ arg.initializer # Undefined
    /\ arg.condition = Undefined /\ arg.incrementor = Undefined
    /\ ret.val[1].condition = Undefined /\ ret.val[1].incrementor = Undefined
    /\ ret.val[1].itemVariable # Undefined

-----------------------------------------------------------------------------
(* Claims about CompileHandler.handle, under SpecServer *)

Handled == op = "handle" /\ ret # Pending

\* the Host header is there and starts with 127.0.0.1
FromLoopback == arg.host # Null /\ arg.host.segments[1] = "127.0.0.1"

\* the body gives a request that the handler can take apart
RequestUsable ==
    /\ arg.body = "json" /\ arg.request # Null /\ arg.request.stdlibCode # Null
    /\ \A i \in 2..Len(arg.request.stdlibCode.parts) :
          Len(arg.request.stdlibCode.parts[i]) = 2

CompilationFailed == RequestUsable /\ ~arg.compiles

MethodInvoked == RequestUsable /\ arg.compiles /\ arg.loads /\ arg.hasMethod

RanToCompletion == MethodInvoked /\ arg.testMethod.ends = "returns"

\* an exception left the try block: from reading the request, from loading
\* the class, from finding the method, or from the invoked method
ExceptionThrown ==
    \/ ~RequestUsable
    \/ arg.compiles /\ (~arg.loads \/ ~arg.hasMethod)
    \/ MethodInvoked /\ arg.testMethod.ends = "throws"

JsonResponses ==
    {i \in 1..Len(ret.sent) : "json" \in DOMAIN ret.sent[i].body}

\* C13: a /compile request whose Host header starts with 127.0.0.1 gets
\* exactly one response, a JSON one; exceptionText is in it exactly when the
\* compilation failed or an exception was thrown while handling (one thrown
\* by the invoked method included), result exactly when the entry method ran
\* to completion, never both; and when handle returns System.out is the
\* original stream again, whether the invoked method returned or threw.
C13_OneResponse ==
    (Handled /\ FromLoopback) =>
        /\ Len(ret.sent) = 1 /\ JsonResponses = {1}
        /\ "exceptionText" \in DOMAIN ret.sent[1].body.json
              <=> (CompilationFailed \/ ExceptionThrown)
        /\ "result" \in DOMAIN ret.sent[1].body.json <=> RanToCompletion
        /\ ~({"exceptionText", "result"} \subseteq DOMAIN ret.sent[1].body.json)
        /\ ret.stdout \in {SystemOut, originalStdout}
        /\ MethodInvoked => ret.stdout = originalStdout
        /\ ~MethodInvoked => ret.stdout = arg.stdout

\* the invoked method installs a stream of its own, prints and throws: one
\* JSON response with the exception text and no result, System.out put back
C13_Witness ==
    /\ Handled /\ FromLoopback /\ MethodInvoked
    /\ arg.testMethod = [ends |-> "throws", setsOut |-> TRUE, prints |-> "ok"]
    /\ Len(ret.sent) = 1
    /\ ret.sent[1].body.json =
          [elapsedMs |-> 0,
           exceptionText |-> JavaString("InvocationTargetException")]
    /\ ret.stdout = originalStdout

=============================================================================
